---- MODULE Spec2Model ----
(***************************************************************************)
(* Model of scripts/remove-hidden.py: the script that mirrors              *)
(* docs/chapters into docs/full-notes and strips <div class="hide">        *)
(* sections from the HTML chapters in place.                               *)
(*                                                                         *)
(* A file's content is a sequence of tokens: a start tag (with its class   *)
(* attribute), an end tag, or one character of text; "\r" and "\n" are     *)
(* the newline characters.  A class attribute is a sequence of chunks,     *)
(* where " " is a space and every other chunk is a run of letters          *)
(* ("hide" followed by "n" is the single class name hiden).                *)
(***************************************************************************)
EXTENDS Naturals, Sequences, FiniteSets, TLC

\* ------------------------------------------------------------------ bounds
MaxTokens == 4
MaxRuns == 3

\* ------------------------------------------------------------ HTML tokens
CR == "\r"
LF == "\n"

OpenTok(tag, cls) == [k |-> "open", tag |-> tag, cls |-> cls]
CloseTok(tag) == [k |-> "close", tag |-> tag, cls |-> <<>>]
TextTok(c) == [k |-> "text", tag |-> c, cls |-> <<>>]

RECURSIVE Concat(_, _)
Concat(seqs, i) ==
  IF i > Len(seqs) THEN <<>> ELSE seqs[i] \o Concat(seqs, i + 1)

\* ------------------------------------------------- text-mode file objects
\* open(path, "r").read(): universal newlines, "\r\n" and "\r" become "\n"
RECURSIVE ReadText(_)
ReadText(bytes) ==
  IF bytes = <<>> THEN <<>>
  ELSE IF bytes[1] = TextTok(CR)
       THEN IF Len(bytes) >= 2 /\ bytes[2] = TextTok(LF)
            THEN <<TextTok(LF)>> \o ReadText(SubSeq(bytes, 3, Len(bytes)))
            ELSE <<TextTok(LF)>> \o ReadText(Tail(bytes))
       ELSE <<bytes[1]>> \o ReadText(Tail(bytes))

\* open(path, "w").write(text): "\n" becomes os.linesep
RECURSIVE WriteText(_, _)
WriteText(text, sep) ==
  IF text = <<>> THEN <<>>
  ELSE IF text[1] = TextTok(LF)
       THEN sep \o WriteText(Tail(text), sep)
       ELSE <<text[1]>> \o WriteText(Tail(text), sep)

\* ------------------------------------------------------ class attributes
\* bs4 splits the class attribute on whitespace into a list of names
RECURSIVE SplitWs(_, _, _)
SplitWs(attr, i, cur) ==
  IF i > Len(attr) THEN (IF cur = <<>> THEN <<>> ELSE <<cur>>)
  ELSE IF attr[i] = " "
       THEN (IF cur = <<>> THEN <<>> ELSE <<cur>>) \o SplitWs(attr, i + 1, <<>>)
       ELSE SplitWs(attr, i + 1, Append(cur, attr[i]))

\* bs4 writes a multi-valued attribute back as its names joined by one space
RECURSIVE JoinWs(_, _)
JoinWs(names, i) ==
  IF i > Len(names) THEN <<>>
  ELSE IF i = Len(names) THEN names[i]
       ELSE names[i] \o <<" ">> \o JoinWs(names, i + 1)

\* ---------------------------------------------------------------- parsing
\* BeautifulSoup(html, "html.parser"): a stack of open tags; stack[1] is
\* the BeautifulSoup object itself.
Root == [id |-> 0, k |-> "elem", tag |-> "[document]", cls |-> <<>>, kids |-> <<>>]
NewTag(i, t) ==
  [id |-> i, k |-> "elem", tag |-> t.tag, cls |-> SplitWs(t.cls, 1, <<>>), kids |-> <<>>]
NewString(i, c) ==
  [id |-> i, k |-> "text", tag |-> "#text", cls |-> <<c>>, kids |-> <<>>]

\* the tag on top of the stack is complete: it becomes a child of the one below
PopTag(stack) ==
  LET n == Len(stack)
  IN  [SubSeq(stack, 1, n - 1) EXCEPT ![n - 1].kids = Append(@, stack[n])]

RECURSIVE PopDownTo(_, _)
PopDownTo(stack, j) ==
  IF Len(stack) < j THEN stack ELSE PopDownTo(PopTag(stack), j)

\* handle_endtag -> _popToTag: close up to the most recent open tag of that
\* name; an end tag with no such open tag is ignored
PopToTag(stack, name) ==
  LET open == {j \in 2..Len(stack) : stack[j].tag = name}
  IN  IF open = {} THEN stack
      ELSE PopDownTo(stack, CHOOSE j \in open : \A m \in open : m <= j)

\* handle_data: adjacent character data is gathered into one string
AddData(stack, i, c) ==
  LET n == Len(stack)
      ks == stack[n].kids
  IN  IF ks # <<>> /\ ks[Len(ks)].k = "text"
      THEN [stack EXCEPT ![n].kids[Len(ks)].cls = Append(@, c)]
      ELSE [stack EXCEPT ![n].kids = Append(@, NewString(i, c))]

RECURSIVE Feed(_, _, _)
Feed(toks, i, stack) ==
  IF i > Len(toks) THEN PopDownTo(stack, 2)[1]
  ELSE LET t == toks[i]
       IN  CASE t.k = "open" -> Feed(toks, i + 1, Append(stack, NewTag(i, t)))
             [] t.k = "close" -> Feed(toks, i + 1, PopToTag(stack, t.tag))
             [] OTHER -> Feed(toks, i + 1, AddData(stack, i, t.tag))

BeautifulSoup(html) == Feed(html, 1, <<Root>>)

\* -------------------------------------------------------------- find_all
HideName == <<"hide">>

\* variant: the class attribute as a whole must equal the wanted value
MatchesClassExact(names, want) ==
  names # <<>> /\ JoinWs(names, 1) = want

\* bs4 attribute matching of {'class': 'hide'}: some name of the class list
\* equals the wanted value, or the whole attribute does
MatchesClass(names, want) ==
  names # <<>> /\ ((\E i \in 1..Len(names) : names[i] = want) \/ JoinWs(names, 1) = want)

MatchesTag(node, name, want) ==
  node.k = "elem" /\ node.tag = name /\ MatchesClass(node.cls, want)

\* the descendants of a node in document order
RECURSIVE Descendants(_)
Descendants(node) ==
  Concat([i \in 1..Len(node.kids) |-> <<node.kids[i]>> \o Descendants(node.kids[i])], 1)

\* variant: find_all(..., recursive=False), the direct children only
find_all_children(soup, name, want) ==
  LET hits == SelectSeq(soup.kids, LAMBDA n : MatchesTag(n, name, want))
  IN  [i \in 1..Len(hits) |-> hits[i].id]

\* soup.find_all("div", {'class': 'hide'}): the matching tags, as references
find_all(soup, name, want) ==
  LET ds == Descendants(soup)
      hits == SelectSeq(ds, LAMBDA n : MatchesTag(n, name, want))
  IN  [i \in 1..Len(hits) |-> hits[i].id]

\* ------------------------------------------------------------- decompose
\* div.decompose(): the tag and everything below it leave the tree; a tag
\* that already left with a decomposed ancestor is no longer in the tree
RECURSIVE decompose(_, _)
decompose(node, id) ==
  LET keep == SelectSeq(node.kids, LAMBDA n : n.id # id)
  IN  [node EXCEPT !.kids = [i \in 1..Len(keep) |-> decompose(keep[i], id)]]

\* variant: only the first match is decomposed (find instead of find_all)
DecomposeFirst(soup, divs, i) ==
  IF i > Len(divs) THEN soup ELSE decompose(soup, divs[i])

RECURSIVE DecomposeEach(_, _, _)
DecomposeEach(soup, divs, i) ==
  IF i > Len(divs) THEN soup
  ELSE DecomposeEach(decompose(soup, divs[i]), divs, i + 1)

\* ---------------------------------------------------------- serialisation
\* str(soup)
RECURSIVE Str(_)
Str(node) ==
  LET inner == Concat([i \in 1..Len(node.kids) |-> Str(node.kids[i])], 1)
  IN  IF node.k = "text" THEN [i \in 1..Len(node.cls) |-> TextTok(node.cls[i])]
      ELSE IF node.id = 0 THEN inner
      ELSE <<OpenTok(node.tag, JoinWs(node.cls, 1))>> \o inner \o <<CloseTok(node.tag)>>

\* lines 31-36: parse, drop every hide div, serialise
Cleaned(html) ==
  LET parsed == BeautifulSoup(html)
  IN  Str(DecomposeEach(parsed, find_all(parsed, "div", HideName), 1))

\* ------------------------------------------------------------ file system
\* an entry of a directory: nothing, a file (data) or a directory (files:
\* the set of <<name, entry>> pairs below it)
Absent == [kind |-> "none", data |-> <<>>, files |-> {}]
File(data) == [kind |-> "file", data |-> data, files |-> {}]
Dir(files) == [kind |-> "dir", data |-> <<>>, files |-> files]

A_HTML == <<"a", ".", "h", "t", "m", "l">>
B_HTML == <<"b", ".", "h", "t", "m", "l">>
IMG == <<"i", "m", "g">>
Names == {A_HTML, B_HTML, IMG}

\* f.endswith(".html")
endswith(f, suffix) ==
  Len(f) >= Len(suffix) /\ SubSeq(f, Len(f) - Len(suffix) + 1, Len(f)) = suffix
DotHtml == <<".", "h", "t", "m", "l">>

\* os.listdir("docs/chapters")
listdir(dir) == {f \in Names : dir[f].kind # "none"}

\* variant: the name left fixed, as in the commented-out line 15
out_path_fixed(f) == <<"a", ".", "h", "t", "m", "l">>

\* f"docs/full-notes/{f}"
out_path(f) == f

\* shutil.rmtree(to_path): fails on anything but a directory
rmtree(fs, to) ==
  IF fs.fn[to].kind # "dir"
  THEN [fs |-> fs, err |-> "NotADirectoryError"]
  ELSE [fs |-> [fs EXCEPT !.fn[to] = Absent], err |-> "none"]

\* the recursion of shutil.copytree: a directory is rebuilt entry by entry,
\* a file is copied byte for byte (copy2)
RECURSIVE CopyTreeOf(_)
CopyTreeOf(entry) ==
  IF entry.kind = "dir"
  THEN Dir({<<c[1], CopyTreeOf(c[2])>> : c \in entry.files})
  ELSE File(entry.data)

\* shutil.copytree(from_path, to_path): scans from_path first, so a source
\* that is not a directory fails before anything is created
copytree(fs, from, to) ==
  IF fs.ch[from].kind # "dir"
  THEN [fs |-> fs, err |-> "NotADirectoryError"]
  ELSE IF fs.fn[to].kind # "none"
  THEN [fs |-> fs, err |-> "FileExistsError"]
  ELSE [fs |-> [fs EXCEPT !.fn[to] = CopyTreeOf(fs.ch[from])], err |-> "none"]

\* variant: copytree moved under an else, so an existing path is only deleted
copy_or_delete(fs, from, to) ==
  IF fs.fn[to].kind # "none" THEN rmtree(fs, to) ELSE copytree(fs, from, to)

\* variant: no rmtree, copytree(..., dirs_exist_ok=True) merges into the path
RECURSIVE MergeInto(_, _)
MergeInto(src, dst) ==
  IF src.kind = "dir" /\ dst.kind = "dir"
  THEN Dir({<<c[1], IF \E d \in dst.files : d[1] = c[1]
                    THEN MergeInto(c[2], (CHOOSE d \in dst.files : d[1] = c[1])[2])
                    ELSE CopyTreeOf(c[2])>> : c \in src.files}
           \cup {d \in dst.files : ~\E c \in src.files : c[1] = d[1]})
  ELSE CopyTreeOf(src)
copy_and_merge(fs, from, to) ==
  IF fs.ch[from].kind # "dir" THEN [fs |-> fs, err |-> "NotADirectoryError"]
  ELSE IF fs.fn[to].kind = "file" THEN [fs |-> fs, err |-> "FileExistsError"]
  ELSE [fs |-> [fs EXCEPT !.fn[to] = MergeInto(fs.ch[from], fs.fn[to])], err |-> "none"]

\* lines 7-10
copy_and_overwrite(fs, from, to) ==
  LET r == IF fs.fn[to].kind # "none" THEN rmtree(fs, to)
           ELSE [fs |-> fs, err |-> "none"]
  IN  IF r.err # "none" THEN r ELSE copytree(r.fs, from, to)

\* variant: the cleaned text is not written back over docs/chapters
HtmlBranchKeepSource(fs, f, sep) ==
  IF fs.ch[f].kind # "file" THEN [fs |-> fs, err |-> "IsADirectoryError"]
  ELSE IF fs.fn[out_path(f)].kind = "dir" THEN [fs |-> fs, err |-> "IsADirectoryError"]
  ELSE [fs |-> [fs EXCEPT !.fn[out_path(f)] =
                     File(WriteText(ReadText(fs.ch[f].data), sep))],
        err |-> "none"]

\* lines 25-38: the HTML branch of the loop body
HtmlBranch(fs, f, sep) ==
  IF fs.ch[f].kind # "file" THEN [fs |-> fs, err |-> "IsADirectoryError"]
  ELSE LET html == ReadText(fs.ch[f].data)
       IN  IF fs.fn[out_path(f)].kind = "dir"
           THEN [fs |-> fs, err |-> "IsADirectoryError"]
           ELSE LET fs1 == [fs EXCEPT !.fn[out_path(f)] = File(WriteText(html, sep))]
                    cleaned == Cleaned(html)
                IN  [fs |-> [fs1 EXCEPT !.ch[f] = File(WriteText(cleaned, sep))],
                     err |-> "none"]

\* lines 24-42: the loop body for one entry
LoopBody(fs, f, sep) ==
  IF endswith(f, DotHtml) THEN HtmlBranch(fs, f, sep)
  ELSE copy_and_overwrite(fs, f, out_path(f))

\* variant: the loop body wrapped in try/except, the loop goes on
NextPcSwallow(err, rest) ==
  IF rest = {} THEN "done" ELSE "running"

\* an exception nobody catches ends the process; otherwise the loop goes on
\* until os.listdir's entries are used up
NextPc(err, rest) ==
  IF err # "none" THEN "failed" ELSE IF rest = {} THEN "done" ELSE "running"

\* ------------------------------------------------------------------ state
VARIABLES
  chapters,      \* docs/chapters: name -> entry
  full,          \* docs/full-notes: name -> entry
  chaptersKind,  \* what docs/chapters itself is: "dir" or "none"
  fullKind,      \* what docs/full-notes itself is: "dir", "file" or "none"
  linesep,       \* os.linesep of the platform
  pc,            \* "idle", "running", "done", "failed"
  todo,          \* entries of os.listdir the loop has not reached yet
  cur,           \* the loop variable f
  err,           \* the exception that ended the run, or "none"
  start,         \* the two directories as the run found them
  runs,          \* number of runs started
  hist,          \* the outcome of every finished run
  orig, doc, soup, passes   \* the filter on its own: html, cleaned, soup

vars == <<chapters, full, chaptersKind, fullKind, linesep, pc, todo, cur, err,
          start, runs, hist, orig, doc, soup, passes>>
fsVars == <<chapters, full, chaptersKind, fullKind, linesep, pc, todo, cur, err,
            start, runs, hist>>
filterVars == <<orig, doc, soup, passes>>

\* ------------------------------------------------------------- the inputs
Hide == <<"hide">>
HideX == <<"hide", " ", "x">>
Hiden == <<"hide", "n">>
Keep == <<"keep">>
Blob(c) == <<TextTok(c)>>

\* <div class="keep">X<div class="hide">S</div></div>
Doc1 == <<OpenTok("div", Keep), TextTok("X"), OpenTok("div", Hide), TextTok("S"),
          CloseTok("div"), CloseTok("div")>>
\* <div class="hide x">A<div class="hide">B      (never closed)
Doc2 == <<OpenTok("div", HideX), TextTok("A"), OpenTok("div", Hide), TextTok("B")>>
\* X\r\n<div class="hiden">Y</div>
Doc3 == <<TextTok("X"), TextTok(CR), TextTok(LF), OpenTok("div", Hiden), TextTok("Y"),
          CloseTok("div")>>
SampleDocs == {Doc1, Doc2, Doc3}

SrcDirs == {Dir({<<"x", File(Blob("1"))>>}),
            Dir({<<"x", File(Blob("2"))>>, <<"s", Dir({<<"y", File(Blob("1"))>>})>>})}
StaleDir == Dir({<<"x", File(Blob("1"))>>, <<"old", Dir({<<"z", File(Blob("3"))>>})>>})
StaleFile == File(Blob("0"))

SrcEntries == {Absent} \cup {File(d) : d \in SampleDocs} \cup SrcDirs
DstEntries == {Absent, StaleFile, StaleDir}
Empty == [f \in Names |-> Absent]

Init ==
  /\ chaptersKind \in {"dir", "none"}
  /\ chapters \in [Names -> SrcEntries]
  /\ chaptersKind = "none" => chapters = Empty
  /\ fullKind \in {"dir", "file", "none"}
  /\ full \in [Names -> DstEntries]
  /\ fullKind # "dir" => full = Empty
  /\ linesep \in {<<TextTok(LF)>>, <<TextTok(CR), TextTok(LF)>>}
  /\ pc = "idle" /\ todo = {} /\ cur = <<>> /\ err = "none"
  /\ start = [ch |-> chapters, fn |-> full]
  /\ runs = 0 /\ hist = <<>>
  /\ orig = <<>> /\ doc = <<>> /\ soup = Root /\ passes = 0

Finished(p, e, ch, fn) ==
  IF p \in {"done", "failed"}
  THEN Append(hist, [ok |-> e = "none", ch |-> ch, fn |-> fn])
  ELSE hist

\* lines 12-23: a new process: create docs/full-notes, list docs/chapters
StartRun ==
  /\ pc \in {"idle", "done", "failed"}
  /\ runs < MaxRuns
  /\ runs' = runs + 1
  /\ start' = [ch |-> chapters, fn |-> full]
  /\ cur' = <<>>
  /\ LET e == IF fullKind = "file" THEN "FileExistsError"
              ELSE IF chaptersKind # "dir" THEN "FileNotFoundError"
              ELSE "none"
         entries == IF e = "none" THEN listdir(chapters) ELSE {}
     IN  /\ err' = e
         /\ fullKind' = IF fullKind = "none" THEN "dir" ELSE fullKind
         /\ todo' = entries
         /\ pc' = NextPc(e, entries)
         /\ hist' = Finished(pc', e, chapters, full)
  /\ UNCHANGED <<chapters, full, chaptersKind, linesep>>
  /\ UNCHANGED filterVars

\* one iteration of the loop at line 23, in whatever order listdir gave
Iterate(f) ==
  /\ pc = "running"
  /\ f \in todo
  /\ LET r == LoopBody([ch |-> chapters, fn |-> full], f, linesep)
     IN  /\ chapters' = r.fs.ch
         /\ full' = r.fs.fn
         /\ err' = r.err
         /\ todo' = todo \ {f}
         /\ cur' = f
         /\ pc' = NextPc(r.err, todo')
         /\ hist' = Finished(pc', r.err, chapters', full')
  /\ UNCHANGED <<chaptersKind, fullKind, linesep, start, runs>>
  /\ UNCHANGED filterVars

\* lines 24-38
IterateHtml == \E f \in Names : endswith(f, DotHtml) /\ Iterate(f)
\* lines 40-42
IterateOther == \E f \in Names : ~endswith(f, DotHtml) /\ Iterate(f)

Next == StartRun \/ IterateHtml \/ IterateOther
Spec == Init /\ [][Next]_vars

\* ------------------------------------------------- the filter on its own
\* lines 31-36 applied to every short document, then again to its own output
Alphabet ==
  {OpenTok("div", <<>>), OpenTok("div", Hide), OpenTok("div", HideX),
   OpenTok("div", Hiden), OpenTok("p", Hide), CloseTok("div"), CloseTok("p"),
   TextTok("X"), TextTok(LF)}
Documents == UNION {[1..n -> Alphabet] : n \in 0..MaxTokens}
MaxPasses == 2

InitFilter ==
  /\ orig \in Documents
  /\ doc = orig /\ soup = Root /\ passes = 0
  /\ chapters = Empty /\ full = Empty /\ chaptersKind = "none" /\ fullKind = "none"
  /\ linesep = <<TextTok(LF)>>
  /\ pc = "idle" /\ todo = {} /\ cur = <<>> /\ err = "none"
  /\ start = [ch |-> Empty, fn |-> Empty]
  /\ runs = 0 /\ hist = <<>>

\* lines 31-36 with html = doc
Filter ==
  /\ passes < MaxPasses
  /\ LET parsed == BeautifulSoup(doc)
     IN  soup' = DecomposeEach(parsed, find_all(parsed, "div", HideName), 1)
  /\ doc' = Str(soup')
  /\ passes' = passes + 1
  /\ UNCHANGED orig
  /\ UNCHANGED fsVars

NextFilter == Filter
SpecFilter == InitFilter /\ [][NextFilter]_vars

\* ================================================================= claims
IsHtml(f) == endswith(f, DotHtml)
\* what os.listdir returned to the current run
Listed == listdir(start.ch)
\* the entries the loop has reached, and those it has finished
Reached == IF cur = <<>> THEN {} ELSE Listed \ todo
Processed == IF cur = <<>> THEN {} ELSE Listed \ (todo \cup (IF err = "none" THEN {} ELSE {cur}))

\* a start tag <div class="... hide ..."> in a text: the chunk hide with a
\* space or the end of the attribute on either side
IsHideDivTag(t) ==
  /\ t.k = "open" /\ t.tag = "div"
  /\ \E p \in 1..Len(t.cls) :
       /\ t.cls[p] = "hide"
       /\ (p = 1 \/ t.cls[p - 1] = " ")
       /\ (p = Len(t.cls) \/ t.cls[p + 1] = " ")
HasHideDiv(text) == \E i \in 1..Len(text) : IsHideDivTag(text[i])

\* the paths of the files below an entry
RECURSIVE PathsOf(_)
PathsOf(entry) ==
  IF entry.kind = "dir"
  THEN UNION {{<<c[1]>> \o q : q \in PathsOf(c[2])} : c \in entry.files}
  ELSE IF entry.kind = "file" THEN {<<>>} ELSE {}

\* C1: after a completed run the full copy of every HTML entry holds exactly
\* the content the source file had when the run read it
C1_FullCopyIsSource ==
  pc = "done" =>
    \A f \in Listed : IsHtml(f) => full[f] = File(start.ch[f].data)

\* C2: every non-HTML entry the loop has reached, plain file or directory,
\* is in docs/full-notes under its name with content identical to the source
C2_NonHtmlCopied ==
  \A f \in Reached : ~IsHtml(f) => full[f] = start.ch[f] /\ chapters[f] = start.ch[f]

\* C3: after a completed run no HTML file of docs/chapters contains a div
\* with the class name hide, at any depth
C3_NoHideDivLeft ==
  pc = "done" =>
    \A f \in Listed : IsHtml(f) =>
      chapters[f].kind = "file" /\ ~HasHideDiv(chapters[f].data)
C3_Witness ==
  /\ pc = "done"
  /\ \E f \in Listed : IsHtml(f) /\ start.ch[f] = File(Doc1)
  /\ \E f \in Listed : IsHtml(f) /\ start.ch[f] = File(Doc2)

\* C4: the filter removes a node iff it, or one of its ancestors, is a div
\* with hide among its space-separated class names; the rest stays in order
NodeIds(tree) == LET ds == Descendants(tree) IN [i \in 1..Len(ds) |-> ds[i].id]
IsHideDiv(n) ==
  n.k = "elem" /\ n.tag = "div" /\ \E i \in 1..Len(n.cls) : n.cls[i] = <<"hide">>
InHideDiv(tree, id) ==
  LET ds == Descendants(tree)
  IN  \E i \in 1..Len(ds) :
        /\ IsHideDiv(ds[i])
        /\ (ds[i].id = id \/ \E j \in 1..Len(Descendants(ds[i])) : Descendants(ds[i])[j].id = id)
C4_RemovedIffInHideDiv ==
  passes = 1 =>
    LET tree == BeautifulSoup(orig)
    IN  NodeIds(soup) = SelectSeq(NodeIds(tree), LAMBDA id : ~InHideDiv(tree, id))
C4_Witness ==
  /\ passes = 1
  /\ orig = <<OpenTok("div", HideX), OpenTok("p", Hide), CloseTok("div"), OpenTok("div", Hiden)>>
  /\ NodeIds(soup) = <<4>>

\* C5: after a completed run every name of the source directory has an
\* entry in docs/full-notes and in docs/chapters
C5_EveryNameInBoth ==
  pc = "done" =>
    \A f \in Listed : full[f].kind # "none" /\ chapters[f].kind # "none"
C5_Witness ==
  /\ pc = "done"
  /\ \E f \in Listed : IsHtml(f) /\ start.fn[f].kind = "none"
  /\ \E f \in Listed : ~IsHtml(f) /\ start.fn[f].kind = "dir"

\* C6 as stated: after a completed run docs/full-notes contains no file that
\* is absent from the current source
C6_NoStaleFileAnywhere ==
  pc = "done" =>
    \A f \in Names : PathsOf(full[f]) \subseteq PathsOf(chapters[f])
\* C6 amended: after a completed run no stale file is left under the path of
\* any entry of the source; entries of docs/full-notes whose names are not
\* in the source are left as they were
C6_NoStaleFileUnderCopied ==
  pc = "done" =>
    /\ \A f \in Listed : PathsOf(full[f]) \subseteq PathsOf(chapters[f])
    /\ \A f \in Names \ Listed : full[f] = start.fn[f]
C6_Witness ==
  /\ pc = "done"
  /\ \E f \in Listed : start.fn[f] = StaleDir /\ chapters[f] \in SrcDirs
  /\ \E f \in Names \ Listed : full[f] = StaleDir

Canonical == <<A_HTML, B_HTML, IMG>>
RECURSIVE RunInOrder(_, _, _, _)
RunInOrder(fs, order, i, sep) ==
  IF i > Len(order) THEN [fs |-> fs, err |-> "none"]
  ELSE LET r == LoopBody(fs, order[i], sep)
       IN  IF r.err # "none" THEN r ELSE RunInOrder(r.fs, order, i + 1, sep)
CanonicalRun ==
  RunInOrder(start, SelectSeq(Canonical, LAMBDA f : f \in Listed), 1, linesep)
LoopEnded == pc = "done" \/ (pc = "failed" /\ cur # <<>>)

C9_FailureEndsRun ==
  err # "none" =>
    /\ pc = "failed"
    /\ cur \notin todo
    /\ \A f \in todo : chapters[f] = start.ch[f] /\ full[f] = start.fn[f]
    /\ \A f \in Processed :
         LET r == LoopBody(start, f, linesep)
         IN  r.err = "none" /\ chapters[f] = r.fs.ch[f] /\ full[f] = r.fs.fn[f]
C9_Witness ==
  /\ pc = "failed"
  /\ todo # {}
  /\ \E f \in Processed : chapters[f] # start.ch[f]

====
